---------------------------- MODULE Spec2Model ----------------------------
(***************************************************************************)
(* Model of black_hole.py: the procedural geometry (create_sphere,         *)
(* create_ring), the fixed-function draw calls (draw_stars, draw_object)   *)
(* and the inertial camera loop of main().                                 *)
(*                                                                         *)
(* Numbers.  The camera quantities are real numbers built from integer     *)
(* pixel deltas divided by 100, the constant 0.02 and repeated             *)
(* multiplication by deceleration.  Such a number is kept exactly, as the  *)
(* sequence c of integer coefficients of                                   *)
(*        (c[1] + c[2]*d + c[3]*d^2 + ...) / 100,    d = deceleration,      *)
(* without trailing zeros (zero is << >>).  Adding n/100 adds n to c[1];   *)
(* multiplying by deceleration shifts c by one place.  Comparisons with a  *)
(* decimal threshold evaluate the sum at d = Deceleration/100 in unbounded *)
(* natural-number arithmetic (sequences of base-1000000 limbs).  The model   *)
(* is exact real arithmetic; binary floating-point rounding is not         *)
(* represented.                                                            *)
(*                                                                         *)
(* Lengths are in thousandths (radius 1.5 is 1500).  A coordinate that is  *)
(* radius*cos(theta_i) + offset is kept as the record                      *)
(* [amp, trig, i, off], never evaluated.                                   *)
(***************************************************************************)
EXTENDS Integers, Sequences, FiniteSets, TLC

VARIABLES
    pc,               \* position in main(): startup steps, then the loop
    cfg,              \* the module-level configuration and main()'s constants
    sphere,           \* result of create_sphere(), or NotBuilt
    rings,            \* results of the three create_ring() calls
    frame,            \* number of completed loop iterations
    mouse_pos,        \* what pygame.mouse.get_pos() returns
    event,            \* the loop variable of `for event in pygame.event.get()`
    handled,          \* events of the current batch already handled
    motion_seen,      \* the current batch held a MOUSEMOTION event
    mouse_down, last_mouse_pos,
    rot_x, rot_y, rot_x_velocity, rot_y_velocity,
    gl,               \* the OpenGL state the draw calls toggle, and the draws
    hist              \* history record: values the properties refer to

vars == <<pc, cfg, sphere, rings, frame, mouse_pos, event, handled,
          motion_seen, mouse_down, last_mouse_pos, rot_x, rot_y,
          rot_x_velocity, rot_y_velocity, gl, hist>>

geomVars == <<cfg, sphere, rings>>
camVars == <<mouse_down, last_mouse_pos, rot_x, rot_y, rot_x_velocity,
             rot_y_velocity>>

----------------------------------------------------------------------------
(* Bounds of the model *)

MaxBatch == 2          \* events handled in one frame
MaxInputFrames == 3    \* frames in which events may arrive
MaxIdle == 4           \* frames followed after the last input frame
LongBatch == 1         \* the same three, for the long runs
LongInputFrames == 3
LongIdle == 50
MaxBands == 3          \* latitude / longitude bands tried
MaxSegments == 5       \* ring segments tried

(* Program constants *)

Deceleration == 95         \* 0.95, in hundredths
CameraRotationSpeed == 2   \* 0.02, in hundredths
DefaultLineWidth == 2      \* line_width=2.0

Positions == {<<0, 0>>, <<100, 0>>, <<0, 10>>}   \* pointer positions tried
LongPositions == {<<0, 0>>, <<100, 10>>}         \* and in the long runs
Buttons == {1, 3}                                \* primary and one other

\* how far a specification follows the loop
Limits == [batch |-> MaxBatch, input |-> MaxInputFrames, idle |-> MaxIdle,
           positions |-> Positions]
LongLimits == [batch |-> LongBatch, input |-> LongInputFrames, idle |-> LongIdle,
               positions |-> LongPositions]

----------------------------------------------------------------------------
(* Exact arithmetic on coefficient sequences *)

RECURSIVE Trim(_)
Trim(p) ==
    IF p = << >> THEN << >>
    ELSE IF p[Len(p)] = 0 THEN Trim(SubSeq(p, 1, Len(p) - 1)) ELSE p

Coef(p, j) == IF j <= Len(p) THEN p[j] ELSE 0

Max(a, b) == IF a >= b THEN a ELSE b

\* x + y
Plus(p, q) == Trim([j \in 1..Max(Len(p), Len(q)) |-> Coef(p, j) + Coef(q, j)])

\* the number n/100
Hundredths(n) == Trim(<<n>>)

\* a faulty variant: the factor is applied twice
TimesDecelerationTwice(p) == IF p = << >> THEN << >> ELSE <<0, 0>> \o p

\* x * deceleration
TimesDeceleration(p) == IF p = << >> THEN << >> ELSE <<0>> \o p

(* Natural numbers of any size: little-endian sequences of limbs < Limb *)

Limb == 1000 * 1000

RECURSIVE BigCarry(_, _)
BigCarry(n, carry) ==
    IF n = << >>
    THEN IF carry = 0 THEN << >> ELSE <<carry % Limb>> \o BigCarry(<< >>, carry \div Limb)
    ELSE <<(Head(n) + carry) % Limb>> \o BigCarry(Tail(n), (Head(n) + carry) \div Limb)

RECURSIVE BigTimes(_, _, _)
BigTimes(n, m, carry) ==
    IF n = << >>
    THEN BigCarry(<< >>, carry)
    ELSE <<(Head(n) * m + carry) % Limb>>
             \o BigTimes(Tail(n), m, (Head(n) * m + carry) \div Limb)

BigMul(n, m) == Trim(BigTimes(n, m, 0))

RECURSIVE BigPlus(_, _, _)
BigPlus(a, b, carry) ==
    IF a = << >> THEN BigCarry(b, carry)
    ELSE IF b = << >> THEN BigCarry(a, carry)
    ELSE <<(Head(a) + Head(b) + carry) % Limb>>
             \o BigPlus(Tail(a), Tail(b), (Head(a) + Head(b) + carry) \div Limb)

BigAdd(a, b) == Trim(BigPlus(a, b, 0))

RECURSIVE BigLess(_, _)
BigLess(a, b) ==
    IF Len(a) # Len(b) THEN Len(a) < Len(b)
    ELSE IF a = << >> THEN FALSE
    ELSE IF a[Len(a)] # b[Len(b)] THEN a[Len(a)] < b[Len(b)]
    ELSE BigLess(SubSeq(a, 1, Len(a) - 1), SubSeq(b, 1, Len(b) - 1))

\* n * 100^k
RECURSIVE BigTimesPow100(_, _)
BigTimesPow100(n, k) ==
    IF k = 0 \/ Len(n) = 0 THEN n ELSE BigTimesPow100(BigMul(n, 100), k - 1)

\* For p with coefficients >= 0 and K = Len(p) - 1, the natural number
\*   sum over j of p[j+1] * Deceleration^j * 100^(K-j)  =  100 * 100^K * value(p),
\* built up term by term: before term j, sum is the same number for the
\* first j-1 coefficients and power is Deceleration^(j-1).  The two length
\* tests never hold; they have both numbers evaluated at every step.
RECURSIVE ScaledFrom(_, _, _, _)
ScaledFrom(p, j, sum, power) ==
    IF j > Len(p) \/ Len(sum) < 0 \/ Len(power) < 0 THEN sum
    ELSE ScaledFrom(p, j + 1,
                    BigAdd(BigMul(sum, 100), BigMul(power, p[j])),
                    BigMul(power, Deceleration))

Scaled(p) == ScaledFrom(p, 1, << >>, <<1>>)

NonNegative(p) == \A j \in 1..Len(p) : p[j] >= 0

\* value(p) < h/100, for p with coefficients >= 0
BelowHundredths(p, h) ==
    /\ NonNegative(p)
    /\ p = << >> \/ BigLess(Scaled(p), BigTimesPow100(<<h>>, Len(p) - 1))

----------------------------------------------------------------------------
(* Configuration: the module-level constants (lines 7-12) and the          *)
(* deceleration constant of main()                                         *)

Config(r, lat, long, t, s, d) ==
    [radius |-> r, lat_bands |-> lat, long_bands |-> long,
     ring_params |-> [radius |-> r, thickness |-> t, segments |-> s],
     additional_ring_params |-> [radius |-> 3000, thickness |-> 200, segments |-> s],
     horizontal_ring_params |-> [radius |-> 2200, thickness |-> 200, segments |-> s],
     deceleration |-> d]

\* The configurations tried at startup, well-formed and malformed.
Configs ==
    {Config(r, lat, long, t, s, d) :
        r \in {0, 1500}, lat \in 0..MaxBands, long \in 0..MaxBands,
        t \in {0, 500}, s \in 0..MaxSegments, d \in {0, Deceleration, 100}}

\* what a generator call has left behind: nothing yet, buffers, or an exception
NotBuilt == [state |-> "not built"]
ZeroDivisionError == [state |-> "raised", exception |-> "ZeroDivisionError"]

----------------------------------------------------------------------------
(* create_sphere *)

\* one coordinate of a sphere point: the product of `scale` and the
\* trigonometric term of grid point (lat, long)
SphereCoord(scale, term, lat, long) ==
    [scale |-> scale, term |-> term, lat |-> lat, long |-> long]

\* (x, y, z) of line 25, each multiplied by the factors in `scale`
SpherePoint(scale, lat, long) ==
    <<SphereCoord(scale, "cos_phi*sin_theta", lat, long),
      SphereCoord(scale, "cos_theta", lat, long),
      SphereCoord(scale, "sin_phi*sin_theta", lat, long)>>

\* the inner loop of lines 22-27, from `long` on
RECURSIVE SphereRow(_, _, _, _)
SphereRow(c, scale, lat, long) ==
    IF long > c.long_bands THEN << >>
    ELSE <<SpherePoint(scale, lat, long)>> \o SphereRow(c, scale, lat, long + 1)

\* the outer loop of lines 19-27, from `lat` on
RECURSIVE SphereGrid(_, _, _)
SphereGrid(c, scale, lat) ==
    IF lat > c.lat_bands THEN << >>
    ELSE SphereRow(c, scale, lat, 0) \o SphereGrid(c, scale, lat + 1)

\* a faulty variant: the second triangle of a cell reaches one vertex too far
SphereCellOffByOne(c, lat, long) ==
    LET first == (lat * (c.long_bands + 1)) + long
        second == (lat * (c.long_bands + 1)) + long + c.long_bands + 1
    IN  <<first, second, first + 1, second, second + 2, first + 1>>

\* lines 30-31
SphereCell(c, lat, long) ==
    LET first == (lat * (c.long_bands + 1)) + long
        second == (lat * (c.long_bands + 1)) + long + c.long_bands + 1
    IN  <<first, second, first + 1, second, second + 1, first + 1>>

RECURSIVE SphereIndexRow(_, _, _)
SphereIndexRow(c, lat, long) ==
    IF long >= c.long_bands THEN << >>
    ELSE SphereCell(c, lat, long) \o SphereIndexRow(c, lat, long + 1)

\* lines 28-31
RECURSIVE SphereIndices(_, _)
SphereIndices(c, lat) ==
    IF lat >= c.lat_bands THEN << >>
    ELSE SphereIndexRow(c, lat, 0) \o SphereIndices(c, lat + 1)

\* create_sphere(): the first division that is evaluated is by lat_bands
\* (line 20), the second by long_bands (line 23); Python raises
\* ZeroDivisionError on a zero divisor.
CreateSphere(c) ==
    IF c.lat_bands = 0 \/ (c.lat_bands > 0 /\ c.long_bands = 0)
    THEN ZeroDivisionError
    ELSE [state |-> "built",
          vertices |-> SphereGrid(c, <<c.radius>>, 0),
          normals |-> SphereGrid(c, << >>, 0),
          indices |-> SphereIndices(c, 0)]

----------------------------------------------------------------------------
(* create_ring *)

\* amp * trig(theta_i) + off
RingCoord(amp, trig, i, off) == [amp |-> amp, trig |-> trig, i |-> i, off |-> off]

Literal(n) == RingCoord(0, "none", 0, n)

\* line 39
Centerline(radius, i, horizontal) ==
    IF horizontal
    THEN <<RingCoord(radius, "cos", i, 0), RingCoord(radius, "sin", i, 0), Literal(0)>>
    ELSE <<RingCoord(radius, "cos", i, 0), Literal(0), RingCoord(radius, "sin", i, 0)>>

\* a coordinate shifted by n
Shifted(coord, n) == [coord EXCEPT !.off = @ + n]

\* line 40: the two vertices of sample i
RingPair(radius, thickness, i, horizontal) ==
    LET p == Centerline(radius, i, horizontal)
    IN  <<<<p[1], p[2], Shifted(p[3], 0 - (thickness \div 2))>>,
          <<p[1], p[2], Shifted(p[3], thickness \div 2)>>>>

\* lines 37-40, from sample i on
RECURSIVE RingVertices(_, _, _, _, _)
RingVertices(radius, thickness, segments, horizontal, i) ==
    IF i > segments THEN << >>
    ELSE RingPair(radius, thickness, i, horizontal)
             \o RingVertices(radius, thickness, segments, horizontal, i + 1)

\* a faulty variant: the seam is not closed, the last quad runs on to sample `segments`
RingQuadOpen(segments, i) ==
    LET next_i == i + 1
    IN  <<i * 2, next_i * 2, next_i * 2 + 1, i * 2, next_i * 2 + 1, i * 2 + 1>>

\* a faulty variant: each quad is stitched to the sample after the next
RingQuadSkip(segments, i) ==
    LET next_i == i + 2
    IN  <<i * 2, next_i * 2, next_i * 2 + 1, i * 2, next_i * 2 + 1, i * 2 + 1>>

\* lines 42-43
RingQuad(segments, i) ==
    LET next_i == (i + 1) % segments
    IN  <<i * 2, next_i * 2, next_i * 2 + 1, i * 2, next_i * 2 + 1, i * 2 + 1>>

\* lines 41-43, from quad i on
RECURSIVE RingIndices(_, _)
RingIndices(segments, i) ==
    IF i >= segments THEN << >>
    ELSE RingQuad(segments, i) \o RingIndices(segments, i + 1)

\* create_ring(radius, thickness, segments, horizontal): line 38 divides by
\* segments in the first iteration.
CreateRing(p, horizontal) ==
    IF p.segments = 0
    THEN ZeroDivisionError
    ELSE [state |-> "built",
          vertices |-> RingVertices(p.radius, p.thickness, p.segments, horizontal, 0),
          indices |-> RingIndices(p.segments, 0)]

\* the three calls of lines 95-97, in order
RingCall(c, k) ==
    IF k = 1 THEN [params |-> c.ring_params, horizontal |-> FALSE]
    ELSE IF k = 2 THEN [params |-> c.additional_ring_params, horizontal |-> FALSE]
    ELSE [params |-> c.horizontal_ring_params, horizontal |-> TRUE]

----------------------------------------------------------------------------
(* draw_stars and draw_object on the OpenGL state *)

White == <<100, 100, 100>>       \* glColor3f(1.0, 1.0, 1.0), in hundredths
NearBlack == <<6, 6, 6>>         \* (0.06, 0.06, 0.06)
Orange == <<100, 50, 0>>         \* (1.0, 0.5, 0.0)

\* The context as main() leaves it before the loop: only GL_DEPTH_TEST was
\* enabled, everything else has OpenGL's initial value.
InitialGL ==
    [lighting |-> FALSE, vertex_array |-> FALSE, normal_array |-> FALSE,
     vertex_pointer |-> "none", normal_pointer |-> "none",
     color |-> White, line_width |-> 1, draws |-> << >>]

\* what one draw call submits, read off the state at the call
Submission(g, mode, indices) ==
    [mode |-> mode, indices |-> indices,
     vertices |-> IF g.vertex_array THEN g.vertex_pointer ELSE "immediate",
     normals |-> IF g.normal_array THEN g.normal_pointer ELSE "none",
     lit |-> g.lighting, color |-> g.color, line_width |-> g.line_width]

\* draw_stars(stars)
DrawStars(g, stars) ==
    LET g1 == [g EXCEPT !.lighting = FALSE, !.color = White]
    IN  [g1 EXCEPT !.draws = Append(@, Submission(g1, "GL_POINTS", stars))]

\* draw_object(vertices, indices, color, line_width, use_normal)
DrawObject(g, vertices, indices, color, line_width, use_normal) ==
    LET g1 == [g EXCEPT !.vertex_array = TRUE, !.vertex_pointer = vertices,
                        !.color = color]
        g2 == IF use_normal
              THEN [g1 EXCEPT !.normal_array = TRUE, !.normal_pointer = vertices,
                              !.lighting = FALSE]
              ELSE g1
        g3 == IF line_width # 0 THEN [g2 EXCEPT !.line_width = line_width] ELSE g2
        g4 == [g3 EXCEPT !.draws = Append(@, Submission(g3, "GL_TRIANGLES", indices))]
        g5 == [g4 EXCEPT !.vertex_array = FALSE]
    IN  IF use_normal THEN [g5 EXCEPT !.normal_array = FALSE] ELSE g5

\* lines 146-150: the five draws of a frame
DrawScene(g) ==
    LET s0 == DrawStars(g, "stars")
        s1 == DrawObject(s0, "sphere_vertices", "sphere_indices", NearBlack,
                         DefaultLineWidth, TRUE)
        s2 == DrawObject(s1, "ring_vertices", "ring_indices", Orange,
                         DefaultLineWidth, FALSE)
        s3 == DrawObject(s2, "additional_ring_vertices", "additional_ring_indices",
                         Orange, DefaultLineWidth, FALSE)
    IN  DrawObject(s3, "horizontal_ring_vertices", "horizontal_ring_indices",
                   Orange, DefaultLineWidth, FALSE)

----------------------------------------------------------------------------
(* State *)

Zero == << >>

NoEvent == [type |-> "none"]

InitialHist ==
    [poll_pos |-> <<0, 0>>,                    \* get_pos() before this frame's batch
     start_vx |-> Zero, start_vy |-> Zero,     \* velocities when the batch was fetched
     dx |-> 0, dy |-> 0, moved |-> FALSE,      \* deltas accumulated in this frame
     press_pos |-> <<0, 0>>,                   \* at the latest primary press
     press_vx |-> Zero, press_vy |-> Zero,
     idle_k |-> 0,                             \* frames of the current idle run
     idle_vx |-> Zero, idle_vy |-> Zero,       \* velocities when the run began
     idle_rx |-> Zero]                         \* rot_x when the run began

\* lines 101-106
InitCamera ==
    /\ rot_x = Zero /\ rot_y = Zero
    /\ rot_x_velocity = Zero /\ rot_y_velocity = Zero
    /\ mouse_down = FALSE
    /\ last_mouse_pos = <<0, 0>>

InitFrame ==
    /\ frame = 0
    /\ mouse_pos = <<0, 0>>
    /\ event = NoEvent
    /\ handled = 0
    /\ motion_seen = FALSE
    /\ gl = InitialGL
    /\ hist = InitialHist

\* the configuration of the source, with the tessellation left to the bounds
SourceConfig == Config(1500, MaxBands, MaxBands, 500, MaxSegments, Deceleration)

\* the buffers main() holds in the loop, by name
SphereBuffers ==
    [state |-> "built", vertices |-> "sphere_vertices",
     normals |-> "sphere_normals", indices |-> "sphere_indices"]
RingBuffers ==
    <<[state |-> "built", vertices |-> "ring_vertices", indices |-> "ring_indices"],
      [state |-> "built", vertices |-> "additional_ring_vertices",
       indices |-> "additional_ring_indices"],
      [state |-> "built", vertices |-> "horizontal_ring_vertices",
       indices |-> "horizontal_ring_indices"]>>

\* main() at the top of its loop, first iteration
Init ==
    /\ pc = "poll"
    /\ cfg = SourceConfig
    /\ sphere = SphereBuffers
    /\ rings = RingBuffers
    /\ InitCamera
    /\ InitFrame

\* main() before line 94, under any of the configurations.  The locals of
\* lines 101-106 have no earlier value and hold their initial values
\* throughout startup.
InitStartup ==
    /\ pc = "create_sphere"
    /\ cfg \in Configs
    /\ sphere = NotBuilt
    /\ rings = <<NotBuilt, NotBuilt, NotBuilt>>
    /\ InitCamera
    /\ InitFrame

----------------------------------------------------------------------------
(* Startup: lines 93-106 *)

loopVars == <<frame, mouse_pos, event, handled, motion_seen, gl, hist>>

\* line 94
BuildSphere ==
    /\ pc = "create_sphere"
    /\ sphere' = CreateSphere(cfg)
    /\ pc' = IF CreateSphere(cfg).state = "raised" THEN "error" ELSE "create_ring"
    /\ UNCHANGED <<cfg, rings, camVars, loopVars>>

\* lines 95-97: the next of the three create_ring calls
BuildRing ==
    /\ pc = "create_ring"
    /\ \E k \in 1..3 :
        /\ rings[k].state = "not built"
        /\ \A j \in 1..(k - 1) : rings[j].state = "built"
        /\ LET call == RingCall(cfg, k)
               made == CreateRing(call.params, call.horizontal)
           IN  /\ rings' = [rings EXCEPT ![k] = made]
               /\ pc' = IF made.state = "raised" THEN "error"
                        ELSE IF k = 3 THEN "setup" ELSE "create_ring"
    /\ UNCHANGED <<cfg, sphere, camVars, loopVars>>

\* lines 98-109: the stars, the camera's locals, and into the loop
EnterLoop ==
    /\ pc = "setup"
    /\ pc' = "poll"
    /\ UNCHANGED <<geomVars, camVars, loopVars>>

NextStartup == BuildSphere \/ BuildRing \/ EnterLoop

----------------------------------------------------------------------------
(* The loop: lines 109-154 *)

\* line 110: pygame.event.get() fetches this frame's batch; get_pos() then
\* reports the pointer position as of this fetch for the whole batch.
Poll(lim) ==
    /\ pc = "poll"
    /\ frame < lim.input + lim.idle
    /\ pc' = "events"
    /\ mouse_pos' \in (IF frame < lim.input THEN lim.positions ELSE {mouse_pos})
    /\ handled' = 0
    /\ motion_seen' = FALSE
    /\ hist' = [hist EXCEPT !.poll_pos = mouse_pos,
                            !.start_vx = rot_x_velocity, !.start_vy = rot_y_velocity,
                            !.dx = 0, !.dy = 0, !.moved = FALSE]
    /\ UNCHANGED <<geomVars, camVars, frame, event, gl>>

\* the loop has another event to handle
MoreEvents(lim) ==
    /\ pc = "events"
    /\ frame < lim.input
    /\ handled < lim.batch

\* lines 111-113
Quit(lim) ==
    /\ MoreEvents(lim)
    /\ event' = [type |-> "QUIT"]
    /\ handled' = handled + 1
    /\ pc' = "exit"
    /\ UNCHANGED <<geomVars, camVars, frame, mouse_pos, motion_seen, gl, hist>>

\* lines 114-117
MouseButtonDown(lim, button) ==
    /\ MoreEvents(lim)
    /\ event' = [type |-> "MOUSEBUTTONDOWN", button |-> button]
    /\ handled' = handled + 1
    /\ IF button = 1
       THEN /\ mouse_down' = TRUE
            /\ last_mouse_pos' = mouse_pos
            /\ hist' = [hist EXCEPT !.press_pos = mouse_pos,
                                    !.press_vx = rot_x_velocity,
                                    !.press_vy = rot_y_velocity]
       ELSE UNCHANGED <<mouse_down, last_mouse_pos, hist>>
    /\ UNCHANGED <<pc, geomVars, rot_x, rot_y, rot_x_velocity, rot_y_velocity,
                   frame, mouse_pos, motion_seen, gl>>

\* lines 118-120
MouseButtonUp(lim, button) ==
    /\ MoreEvents(lim)
    /\ event' = [type |-> "MOUSEBUTTONUP", button |-> button]
    /\ handled' = handled + 1
    /\ mouse_down' = IF button = 1 THEN FALSE ELSE mouse_down
    /\ UNCHANGED <<pc, geomVars, last_mouse_pos, rot_x, rot_y, rot_x_velocity,
                   rot_y_velocity, frame, mouse_pos, motion_seen, gl, hist>>

\* a faulty variant: the reference position is not updated after a move
NextReferenceStale(pos) == last_mouse_pos

\* line 126
NextReference(pos) == pos

\* lines 121-126
MouseMotion(lim) ==
    /\ MoreEvents(lim)
    /\ event' = [type |-> "MOUSEMOTION"]
    /\ handled' = handled + 1
    /\ motion_seen' = TRUE
    /\ IF mouse_down
       THEN LET dx == mouse_pos[1] - last_mouse_pos[1]
                dy == mouse_pos[2] - last_mouse_pos[2]
            IN  /\ rot_x_velocity' = Plus(rot_x_velocity, Hundredths(dy))
                /\ rot_y_velocity' = Plus(rot_y_velocity, Hundredths(dx))
                /\ last_mouse_pos' = NextReference(mouse_pos)
                /\ hist' = [hist EXCEPT !.dx = @ + dx, !.dy = @ + dy, !.moved = TRUE]
       ELSE UNCHANGED <<rot_x_velocity, rot_y_velocity, last_mouse_pos, hist>>
    /\ UNCHANGED <<pc, geomVars, mouse_down, rot_x, rot_y, frame, mouse_pos, gl>>

\* the batch is exhausted; the pointer only moves with a MOUSEMOTION event
EndEvents ==
    /\ pc = "events"
    /\ mouse_pos = hist.poll_pos \/ motion_seen
    /\ pc' = "update"
    /\ UNCHANGED <<geomVars, camVars, loopVars>>

\* a faulty variant: the velocities decay in every frame
DecayAlways(v) == TimesDeceleration(v)

\* lines 129-131, for one velocity
Decay(v) == IF ~mouse_down THEN TimesDeceleration(v) ELSE v

\* a faulty variant: the ambient increment is added in every frame
AmbientAlways(r) == Plus(r, Hundredths(CameraRotationSpeed))

\* lines 136-137
Ambient(r) == IF ~mouse_down THEN Plus(r, Hundredths(CameraRotationSpeed)) ELSE r

\* lines 129-137
Update ==
    /\ pc = "update"
    /\ rot_x_velocity' = Decay(rot_x_velocity)
    /\ rot_y_velocity' = Decay(rot_y_velocity)
    /\ rot_x' = Ambient(Plus(rot_x, rot_x_velocity'))
    /\ rot_y' = Plus(rot_y, rot_y_velocity')
    /\ LET idle == ~mouse_down /\ ~hist.moved
       IN  hist' = IF idle THEN [hist EXCEPT !.idle_k = @ + 1]
                   ELSE [hist EXCEPT !.idle_k = 0,
                                     !.idle_vx = rot_x_velocity',
                                     !.idle_vy = rot_y_velocity',
                                     !.idle_rx = rot_x']
    /\ pc' = "draw"
    /\ UNCHANGED <<geomVars, mouse_down, last_mouse_pos, frame, mouse_pos, event,
                   handled, motion_seen, gl>>

\* lines 140-154
Draw ==
    /\ pc = "draw"
    /\ gl' = DrawScene([gl EXCEPT !.draws = << >>])
    /\ frame' = frame + 1
    /\ pc' = "poll"
    /\ UNCHANGED <<geomVars, camVars, mouse_pos, event, handled, motion_seen, hist>>

\* one step of the loop
Loop(lim) ==
    \/ Poll(lim)
    \/ Quit(lim)
    \/ \E button \in Buttons : MouseButtonDown(lim, button)
    \/ \E button \in Buttons : MouseButtonUp(lim, button)
    \/ MouseMotion(lim)
    \/ EndEvents
    \/ Update
    \/ Draw

Next == Loop(Limits)

LongNext == Loop(LongLimits)

Spec == Init /\ [][Next]_vars

\* the loop followed through long idle runs, after few inputs
LongRunSpec == Init /\ [][LongNext]_vars

StartupSpec == InitStartup /\ [][NextStartup]_vars

----------------------------------------------------------------------------
(* Properties *)

\* p * deceleration^k, written out independently of the loop's operators
DecayedBy(p, k) == IF p = << >> THEN << >> ELSE [j \in 1..k |-> 0] \o p

\* the frame's physics has run: lines 129-137 are done, the draw is next
AfterUpdate == pc = "draw"

\* the velocities the frame would have with its deltas added and no decay
AccumulatedX == Plus(hist.start_vx, Hundredths(hist.dy))
AccumulatedY == Plus(hist.start_vy, Hundredths(hist.dx))

\* C1, as stated: in every frame in which a pointer-move was processed with
\* the primary button down, rot_y_velocity rises by exactly dx/100 and
\* rot_x_velocity by exactly dy/100 over the frame, with no decay, whatever
\* the order of press, move and release in the frame.
C1_NoDecayInAnyDragFrame ==
    (AfterUpdate /\ hist.moved) =>
        /\ rot_x_velocity = AccumulatedX
        /\ rot_y_velocity = AccumulatedY

\* C1, amended: in such a frame the velocities rise by exactly dy/100 and
\* dx/100 with no decay if the primary button is still down when the frame's
\* events have all been handled; if it is up by then (released after the
\* move), the velocities, the frame's deltas included, are multiplied by
\* deceleration once.
C1_DecayFollowsButtonAtUpdate ==
    (AfterUpdate /\ hist.moved) =>
        IF mouse_down
        THEN /\ rot_x_velocity = AccumulatedX
             /\ rot_y_velocity = AccumulatedY
        ELSE /\ rot_x_velocity = DecayedBy(AccumulatedX, 1)
             /\ rot_y_velocity = DecayedBy(AccumulatedY, 1)

\* C1 witness: a frame that accumulated dx = 100 with the button still down
\* at the update, on top of a velocity from an earlier frame.
C1_Witness ==
    /\ AfterUpdate /\ hist.moved /\ mouse_down
    /\ hist.dx = 100 /\ hist.start_vx # Zero
    /\ rot_y_velocity = AccumulatedY

IsSphereDraw(d) == d.indices = "sphere_indices"

\* C2: in every frame the sphere is drawn lit with the sphere's normal
\* buffer bound as the normal array, and the stars and the three rings are
\* drawn unlit.
C2_SphereLitWithItsNormals ==
    \A n \in 1..Len(gl.draws) :
        IF IsSphereDraw(gl.draws[n])
        THEN gl.draws[n].lit /\ gl.draws[n].normals = "sphere_normals"
        ELSE ~gl.draws[n].lit

\* the ring of call k was built from at least three segments
BuiltRing(k) == rings[k].state = "built" /\ RingCall(cfg, k).params.segments >= 3

\* the centerline point of sample i moved by n along axis a
Offset(point, a, n) == [point EXCEPT ![a] = [@ EXCEPT !.off = @ + n]]

\* C3: the two vertices of every ring sample are the centerline point moved
\* by -thickness/2 and +thickness/2 along the axis orthogonal to the ring
\* plane: z for a horizontal ring, y for a vertical ring.
C3_ThicknessAlongOrthogonalAxis ==
    \A k \in 1..3 :
        BuiltRing(k) =>
            LET call == RingCall(cfg, k)
                axis == IF call.horizontal THEN 3 ELSE 2
                half == call.params.thickness \div 2
            IN  \A i \in 0..call.params.segments :
                    LET point == Centerline(call.params.radius, i, call.horizontal)
                    IN  /\ rings[k].vertices[2 * i + 1] = Offset(point, axis, 0 - half)
                        /\ rings[k].vertices[2 * i + 2] = Offset(point, axis, half)

Malformed(c) ==
    \/ \E k \in 1..3 :
          \/ RingCall(c, k).params.segments < 3
          \/ RingCall(c, k).params.radius <= 0
          \/ RingCall(c, k).params.thickness <= 0
    \/ c.radius <= 0
    \/ c.deceleration <= 0 \/ c.deceleration >= 100

\* C4: a malformed configuration produces no geometry and never reaches the
\* frame loop.
C4_MalformedConfigFailsFast ==
    Malformed(cfg) =>
        /\ sphere.state # "built"
        /\ \A k \in 1..3 : rings[k].state # "built"
        /\ pc \in {"create_sphere", "error"}

InRange(indices, count) == \A n \in 1..Len(indices) : indices[n] >= 0 /\ indices[n] < count

\* C5: for lat_bands >= 1 and long_bands >= 1 the sphere has
\* (lat_bands+1)*(long_bands+1) vertices, as many normals, and
\* 6*lat_bands*long_bands indices, each >= 0 and below the vertex count.
C5_SphereCounts ==
    (sphere.state = "built" /\ cfg.lat_bands >= 1 /\ cfg.long_bands >= 1) =>
        /\ Len(sphere.vertices) = (cfg.lat_bands + 1) * (cfg.long_bands + 1)
        /\ Len(sphere.normals) = Len(sphere.vertices)
        /\ Len(sphere.indices) = 6 * cfg.lat_bands * cfg.long_bands
        /\ InRange(sphere.indices, Len(sphere.vertices))

\* C5 witness: a sphere built from a 2 x 3 grid of cells.
C5_Witness ==
    /\ sphere.state = "built"
    /\ cfg.lat_bands = 2 /\ cfg.long_bands = 3
    /\ Len(sphere.indices) = 36

\* C6: for segments >= 3 and either orientation a ring has 2*(segments+1)
\* vertices and 6*segments indices, each >= 0 and below the vertex count.
C6_RingCounts ==
    \A k \in 1..3 :
        BuiltRing(k) =>
            LET segments == RingCall(cfg, k).params.segments
            IN  /\ Len(rings[k].vertices) = 2 * (segments + 1)
                /\ Len(rings[k].indices) = 6 * segments
                /\ InRange(rings[k].indices, Len(rings[k].vertices))

\* C6 witness: a vertical and a horizontal ring, both built from 4 segments.
C6_Witness ==
    /\ BuiltRing(1) /\ BuiltRing(3)
    /\ cfg.ring_params.segments = 4
    /\ Len(rings[3].vertices) = 10

\* the six indices of quad q of a ring's index buffer
QuadOf(indices, q) == SubSeq(indices, 6 * q + 1, 6 * q + 6)

\* quad q of the buffer refers to a vertex of pair j
UsesPair(indices, q, j) ==
    \E n \in 1..6 : QuadOf(indices, q)[n] \in {2 * j, 2 * j + 1}

\* C7: quad i of a ring is the triangles (2i, 2n, 2n+1) and (2i, 2n+1, 2i+1)
\* with n = (i+1) mod segments; the last quad joins back to vertex pair 0,
\* and every vertex pair 0..segments-1 is used by exactly two quads, which
\* are consecutive around the loop.
C7_RingClosedLoop ==
    \A k \in 1..3 :
        BuiltRing(k) =>
            LET segments == RingCall(cfg, k).params.segments
                indices == rings[k].indices
            IN  /\ \A i \in 0..(segments - 1) :
                       LET n == (i + 1) % segments
                       IN  QuadOf(indices, i) =
                               <<2 * i, 2 * n, 2 * n + 1, 2 * i, 2 * n + 1, 2 * i + 1>>
                /\ UsesPair(indices, segments - 1, 0)
                /\ \A j \in 0..(segments - 1) :
                       {q \in 0..(segments - 1) : UsesPair(indices, q, j)}
                           = {j, (j + segments - 1) % segments}

\* C7 witness: a ring of 5 segments whose last quad refers to vertex 0.
C7_Witness ==
    /\ BuiltRing(1)
    /\ cfg.ring_params.segments = 5
    /\ QuadOf(rings[1].indices, 4)[2] = 0

\* the loop is between the physics of one frame and the events of the next
FrameDone == pc \in {"draw", "poll"}

\* C8: after k consecutive idle frames (no delta accumulated, button up at
\* the update) from velocity v0, each velocity is v0 * deceleration^k; from
\* v0 = 1.0 with deceleration 0.95, after 50 idle frames it is below 0.08.
C8_DecayOncePerIdleFrame ==
    FrameDone =>
        /\ rot_x_velocity = DecayedBy(hist.idle_vx, hist.idle_k)
        /\ rot_y_velocity = DecayedBy(hist.idle_vy, hist.idle_k)
        /\ (hist.idle_k = 50 /\ hist.idle_vy = Hundredths(100)) =>
               /\ BelowHundredths(rot_y_velocity, 8)
               /\ ~BelowHundredths(rot_y_velocity, 7)

\* C8 witness: 50 idle frames after a drag left rot_y_velocity at 1.0.
C8_Witness ==
    /\ pc = "poll"
    /\ hist.idle_k = 50
    /\ hist.idle_vy = Hundredths(100)
    /\ rot_y_velocity # Zero

\* one step of the loop, as C9 states it
C9_Step ==
    IF pc = "update"
    THEN /\ rot_y' = Plus(rot_y, rot_y_velocity')
         /\ rot_x' = IF mouse_down
                     THEN Plus(rot_x, rot_x_velocity')
                     ELSE Plus(Plus(rot_x, rot_x_velocity'),
                               Hundredths(CameraRotationSpeed))
    ELSE UNCHANGED <<rot_x, rot_y>>

\* C9: each frame adds the current rot_y_velocity to rot_y and the current
\* rot_x_velocity to rot_x, plus the ambient increment on rot_x exactly when
\* no drag is active at the update; nothing else changes the angles, and
\* over n idle frames with rot_x_velocity = 0, rot_x grows by n times the
\* ambient rate.
C9_IntegrationAndAmbient ==
    /\ [][C9_Step]_vars
    /\ [](FrameDone /\ hist.idle_vx = Zero =>
            rot_x = Plus(hist.idle_rx, Hundredths(hist.idle_k * CameraRotationSpeed)))

\* C9 witness: three idle frames with no momentum about x, after a frame in
\* which the drag was active and rot_x got no ambient increment.
C9_Witness ==
    /\ pc = "poll"
    /\ hist.idle_k = 3 /\ hist.idle_vx = Zero
    /\ rot_y_velocity # Zero
    /\ rot_x = Hundredths(3 * CameraRotationSpeed)

\* the event handled in this step, if it is one
Handling(type) == handled' = handled + 1 /\ event'.type = type

\* one step of the loop, as C10 states it
C10_Step ==
    /\ (Handling("MOUSEMOTION") /\ ~mouse_down) =>
           UNCHANGED <<rot_x_velocity, rot_y_velocity, mouse_down, last_mouse_pos>>
    /\ ((Handling("MOUSEBUTTONDOWN") \/ Handling("MOUSEBUTTONUP")) /\ event'.button # 1) =>
           UNCHANGED <<rot_x_velocity, rot_y_velocity, mouse_down, last_mouse_pos>>
    /\ (Handling("MOUSEBUTTONUP") /\ event'.button = 1) =>
           ~mouse_down' /\ UNCHANGED <<rot_x_velocity, rot_y_velocity>>
    /\ (Handling("MOUSEBUTTONDOWN") /\ event'.button = 1) =>
           /\ mouse_down' /\ last_mouse_pos' = mouse_pos
           /\ UNCHANGED <<rot_x_velocity, rot_y_velocity>>

\* C10: while the primary button is held, over any number of moves and
\* frames, the velocity gained since the press is (last sampled position -
\* position captured at the press)/100 on each axis; moves with the button
\* up and presses and releases of other buttons change neither velocities
\* nor drag state, and the release leaves the velocities unchanged.
C10_DragTelescopes ==
    /\ [][C10_Step]_vars
    /\ [](mouse_down =>
            /\ rot_y_velocity =
                   Plus(hist.press_vy, Hundredths(last_mouse_pos[1] - hist.press_pos[1]))
            /\ rot_x_velocity =
                   Plus(hist.press_vx, Hundredths(last_mouse_pos[2] - hist.press_pos[2])))

\* C10 witness: a drag held over three frames, pressed at (0,0), moved to
\* (100,0) and on to (0,10).
C10_Witness ==
    /\ mouse_down /\ frame = 2
    /\ hist.press_pos = <<0, 0>> /\ last_mouse_pos = <<0, 10>>
    /\ rot_y # Zero /\ rot_y_velocity = Zero
    /\ rot_x_velocity = Hundredths(10)

=============================================================================
